---- MODULE Spec2Model ----
(***************************************************************************)
(* Campus energy dashboard (src/Capstone/energy_dashboard.py): main() runs *)
(* BuildingManager.load_data, generate_summary_report and create_dashboard *)
(* in sequence over the CSV files of the data directory.                   *)
(*                                                                         *)
(* A CSV cell is modelled by what pandas makes of it:                      *)
(*   timestamp: an hour of Times (a parseable time), NaT (empty cell),     *)
(*              BadTime (a string pd.to_datetime cannot parse);            *)
(*   kwh:       0..MaxKwh (a number), NaN (empty cell), BadNum (a string   *)
(*              that is not a number, which makes the column object-typed).*)
(* All parseable timestamps of a directory are taken to share one format.  *)
(***************************************************************************)
EXTENDS Integers, Sequences, FiniteSets

\* Bounds of the model.
MaxRows == 2    \* data rows in the whole data directory
MaxKwh == 1     \* largest kwh reading
MaxSourceRows == 3  \* readings of the source that is split into chunks
MaxBooks == 2   \* books in the catalog, in the file and in memory

\* Cell values that are not plain numbers.
NaT == -1
BadTime == -2
NaN == -1
BadNum == -2

Names == {"A", "B"}
\* The parseable timestamps: 08:00 and 20:00 of one day.
Times == {8, 20}
\* resample('D'): a bin is a calendar day.
HoursPerDay == 24
\* Timestamps over several days: 08:00 and 20:00 of day 0, 08:00 of day 2.
DailyTimes == {8, 20, 56}
NoName == "None"
Outputs == <<"building_summary.csv", "summary.txt", "cleaned_energy_data.csv">>
DashboardFile == "dashboard.png"
AllOutputs == {Outputs[k] : k \in 1..Len(Outputs)} \cup {DashboardFile}

VARIABLES
  disk,         \* the data directory: file stem -> file
  failing,      \* the output files the file system refuses to write
  pc,           \* position of main()
  csv_files,    \* load_data: the glob result
  i,            \* load_data: index of the next file of the for loop
  buildings,    \* BuildingManager.buildings (a dict, in insertion order)
  all_data,     \* load_data: the frames kept for the combined table
  combined_df,  \* BuildingManager.combined_df
  log,          \* the records given to logging
  report,       \* what generate_summary_report computed
  attempts,     \* the output files whose write was started, in order
  written       \* the output files written

energyVars == <<disk, failing, pc, csv_files, i, buildings, all_data, combined_df,
                log, report, attempts, written>>

\* Building.calculate_daily_totals on a source and on two chunks of its rows.
VARIABLES
  source,       \* a Building whose readings were processed
  chunks,       \* two Buildings holding a split of the source's readings
  totals        \* calculate_daily_totals of the source and of each chunk

dailyVars == <<source, chunks, totals>>

\* Lab 3, library inventory manager.
VARIABLES
  catalog,      \* the file library_catalog.json
  writable,     \* whether the catalog file can be written
  lpc,          \* position of the library's main(): "start", "menu", "exited", "raised"
  books,        \* LibraryInventory.books
  last,         \* the last operation: its arguments, result and log records
  before,       \* books as they were before the last operation
  mutated       \* whether an operation has changed books since construction

libVars == <<catalog, writable, lpc, books, last, before, mutated>>

\* Lab 4, weather data visualizer.
VARIABLES
  winput,       \* the path given as --csv and what it holds
  wfailing,     \* output files that cannot be written
  wpc,          \* position of the visualizer's main()
  wcode,        \* <<c>> once main has returned c, <<>> before and when it raises
  wfiles,       \* output files written by this run
  wlog          \* logging records of this run, as <<level, message>>

weatherVars == <<winput, wfailing, wpc, wcode, wfiles, wlog>>

vars == <<energyVars, dailyVars, libVars, weatherVars>>

outsideEnergy == <<dailyVars, libVars, weatherVars>>
outsideDaily == <<energyVars, libVars, weatherVars>>
outsideLibrary == <<energyVars, dailyVars, weatherVars>>
outsideWeather == <<energyVars, dailyVars, libVars>>

----------------------------------------------------------------------------
\* The input: CSV files.

TimeCells == Times \cup {NaT, BadTime}
KwhCells == (0..MaxKwh) \cup {NaN, BadNum}
RequiredColumns == {"timestamp", "kwh"}

Absent == [kind |-> "absent", cols |-> {}, rows |-> <<>>]
Unreadable == [kind |-> "unreadable", cols |-> {}, rows |-> <<>>]

\* The files with n data rows. A column the file lacks holds no cell: NaT / NaN
\* stand in its place.
FilesWithRows(n) ==
  (IF n = 0 THEN {Absent, Unreadable} ELSE {})
  \cup {[kind |-> "csv", cols |-> RequiredColumns, rows |-> r] :
          r \in [1..n -> [timestamp : TimeCells, kwh : KwhCells]]}
  \cup {[kind |-> "csv", cols |-> {"timestamp"}, rows |-> r] :
          r \in [1..n -> [timestamp : TimeCells, kwh : {NaN}]]}
  \cup {[kind |-> "csv", cols |-> {"kwh"}, rows |-> r] :
          r \in [1..n -> [timestamp : {NaT}, kwh : KwhCells]]}
  \cup {[kind |-> "csv", cols |-> {}, rows |-> r] :
          r \in [1..n -> [timestamp : {NaT}, kwh : {NaN}]]}

\* The orders in which glob may enumerate a set of files.
Orders(S) ==
  {p \in [1..Cardinality(S) -> S] : \A a, b \in DOMAIN p : a # b => p[a] # p[b]}

Range(s) == {s[k] : k \in DOMAIN s}

----------------------------------------------------------------------------
\* Building

NoFrame == [rows |-> <<>>, indexed |-> FALSE]

Building(name) == [name |-> name, readings |-> <<>>, df |-> NoFrame]

MeterReading(timestamp, kwh) == [timestamp |-> timestamp, kwh |-> kwh]

\* sort_index: ascending by timestamp, NaT last.
TsBefore(a, b) == a # NaT /\ (b = NaT \/ a < b)

RECURSIVE InsertSorted(_, _)
InsertSorted(r, s) ==
  IF s = <<>> THEN <<r>>
  ELSE IF TsBefore(r.timestamp, Head(s).timestamp)
       THEN <<r>> \o s
       ELSE <<Head(s)>> \o InsertSorted(r, Tail(s))

RECURSIVE SortIndex(_)
SortIndex(s) ==
  IF s = <<>> THEN <<>>
  ELSE InsertSorted(s[Len(s)], SortIndex(SubSeq(s, 1, Len(s) - 1)))

\* pd.to_datetime raises on a string it cannot parse.
ToDatetimeRaises(rows) == \E k \in DOMAIN rows : rows[k].timestamp = BadTime

\* process_readings: df after the call. When to_datetime raises, df is
\* already the unsorted frame of the readings, without a time index.
ProcessReadings(b) ==
  IF b.readings = <<>> THEN b
  ELSE IF ToDatetimeRaises(b.readings)
       THEN [b EXCEPT !.df = [rows |-> b.readings, indexed |-> FALSE]]
       ELSE [b EXCEPT !.df = [rows |-> SortIndex(b.readings), indexed |-> TRUE]]

\* Variant: a timestamp that cannot be parsed does not stop the file.
ProcessReadingsNeverRaises(b) == FALSE

ProcessReadingsRaises(b) == b.readings # <<>> /\ ToDatetimeRaises(b.readings)

----------------------------------------------------------------------------
\* Series reductions of pandas over a kwh column (skipna).

RECURSIVE SumKwh(_)
SumKwh(col) ==
  IF col = <<>> THEN 0
  ELSE (IF Head(col) >= 0 THEN Head(col) ELSE 0) + SumKwh(Tail(col))

RECURSIVE CountKwh(_)
CountKwh(col) ==
  IF col = <<>> THEN 0
  ELSE (IF Head(col) >= 0 THEN 1 ELSE 0) + CountKwh(Tail(col))

RECURSIVE MaxKwhOf(_)
MaxKwhOf(col) ==
  IF col = <<>> THEN NaN
  ELSE LET m == MaxKwhOf(Tail(col))
       IN IF Head(col) >= 0 /\ Head(col) >= m THEN Head(col) ELSE m

\* A column read from a file with a non-numeric cell holds strings: summing
\* it, or formatting the sum with :.2f, raises.
HasStr(col) == \E k \in DOMAIN col : col[k] = BadNum

KwhColumn(rows) == [k \in DOMAIN rows |-> rows[k].kwh]

\* idxmax: the first position of the largest value, 0 when all are NaN.
IdxMax(col) ==
  IF CountKwh(col) = 0 THEN 0
  ELSE CHOOSE k \in DOMAIN col :
         /\ col[k] = MaxKwhOf(col)
         /\ \A j \in 1..(k - 1) : col[j] # MaxKwhOf(col)

----------------------------------------------------------------------------
\* Building.calculate_daily_totals

DayOf(t) == t \div HoursPerDay

LastDay == CHOOSE d \in {DayOf(t) : t \in DailyTimes} :
             \A t \in DailyTimes : DayOf(t) <= d

\* The rows of a time-indexed frame that fall on day d (a NaT row falls on none).
RowsOnDay(rows, d) ==
  SelectSeq(rows, LAMBDA r : r.timestamp # NaT /\ DayOf(r.timestamp) = d)

DaysOf(rows) ==
  {DayOf(rows[k].timestamp) : k \in {j \in DOMAIN rows : rows[j].timestamp # NaT}}

EmptySeries == [d \in {} |-> 0]

\* Variant: the daily maximum in place of the daily sum.
DailyMax(b) ==
  IF b.df.rows = <<>> THEN EmptySeries
  ELSE LET ds == DaysOf(b.df.rows)
           lo == CHOOSE d \in ds : \A e \in ds : d <= e
           hi == CHOOSE d \in ds : \A e \in ds : e <= d
       IN [d \in lo..hi |->
             IF CountKwh(KwhColumn(RowsOnDay(b.df.rows, d))) = 0 THEN 0
             ELSE MaxKwhOf(KwhColumn(RowsOnDay(b.df.rows, d)))]

\* df['kwh'].resample('D').sum(): one value for every day from the first to the
\* last day of the index, the sum of that day's kwh (0 for a day without rows).
\* An empty df gives an empty Series. For a time index holding at least one
\* time (see ResampleRaises and AllNaT for the others).
DailyTotals(b) ==
  IF b.df.rows = <<>> THEN EmptySeries
  ELSE LET ds == DaysOf(b.df.rows)
           lo == CHOOSE d \in ds : \A e \in ds : d <= e
           hi == CHOOSE d \in ds : \A e \in ds : e <= d
       IN [d \in lo..hi |-> SumKwh(KwhColumn(RowsOnDay(b.df.rows, d)))]

----------------------------------------------------------------------------
\* BuildingManager.load_data

Log(level, msg, about) == [level |-> level, msg |-> msg, about |-> about]

ReadCsvRaises(file) == file.kind = "unreadable"

\* Variant: the two column tests joined by "and".
MissingColumnsBoth(file) == "timestamp" \notin file.cols /\ "kwh" \notin file.cols

MissingColumns(file) == "timestamp" \notin file.cols \/ "kwh" \notin file.cols

HasBuilding(bs, name) == \E k \in DOMAIN bs : bs[k].name = name

BuildingIndex(bs, name) == CHOOSE k \in DOMAIN bs : bs[k].name = name

\* if building_name not in self.buildings: self.buildings[name] = Building(name)
WithBuilding(bs, name) ==
  IF HasBuilding(bs, name) THEN bs ELSE Append(bs, Building(name))

\* for _, row in df.iterrows(): add_reading(MeterReading(...))
AddReadings(b, rows) ==
  [b EXCEPT !.readings =
     @ \o [k \in DOMAIN rows |-> MeterReading(rows[k].timestamp, rows[k].kwh)]]

\* df['building'] = building_name
TagFrame(rows, name) ==
  [k \in DOMAIN rows |->
     [timestamp |-> rows[k].timestamp, kwh |-> rows[k].kwh, building |-> name]]

\* pd.concat(all_data, ignore_index=True)
RECURSIVE Concat(_)
Concat(frames) ==
  IF frames = <<>> THEN <<>> ELSE Head(frames) \o Concat(Tail(frames))

\* csv_files = list(self.data_dir.glob("*.csv")), and the early return.
LoadGlob ==
  /\ pc = "main"
  /\ \E order \in Orders({n \in Names : disk[n].kind # "absent"}) :
       /\ csv_files' = order
       /\ IF order = <<>>
          THEN /\ log' = Append(log, Log("WARNING", "No CSV files found", NoName))
               /\ pc' = "loaded"
          ELSE /\ log' = log
               /\ pc' = "loading"
  /\ i' = 1
  /\ all_data' = <<>>
  /\ UNCHANGED <<disk, failing, buildings, combined_df, report, attempts, written>>

\* One iteration of the for loop: the try body and its except clause.
LoadFile ==
  /\ pc = "loading"
  /\ i <= Len(csv_files)
  /\ LET name == csv_files[i]
         file == disk[name]
         loading == Log("INFO", "Loading", name)
     IN IF ReadCsvRaises(file)
        THEN /\ log' = log \o <<loading, Log("ERROR", "Error reading", name)>>
             /\ UNCHANGED <<buildings, all_data>>
        ELSE IF MissingColumns(file)
        THEN /\ log' = log \o <<loading, Log("ERROR", "Skipping: missing columns", name)>>
             /\ UNCHANGED <<buildings, all_data>>
        ELSE LET bs == WithBuilding(buildings, name)
                 k == BuildingIndex(bs, name)
                 b == AddReadings(bs[k], file.rows)
             IN /\ buildings' = [bs EXCEPT ![k] = ProcessReadings(b)]
                /\ IF ProcessReadingsRaises(b)
                   THEN /\ log' = log \o <<loading, Log("ERROR", "Error reading", name)>>
                        /\ all_data' = all_data
                   ELSE /\ log' = Append(log, loading)
                        /\ all_data' = Append(all_data, TagFrame(file.rows, name))
  /\ i' = i + 1
  /\ UNCHANGED <<disk, failing, pc, csv_files, combined_df, report, attempts, written>>

\* After the loop: the combined table.
LoadFinish ==
  /\ pc = "loading"
  /\ i > Len(csv_files)
  /\ IF all_data # <<>>
     THEN /\ combined_df' = Concat(all_data)
          /\ log' = Append(log, Log("INFO", "Combined data loaded", NoName))
     ELSE UNCHANGED <<combined_df, log>>
  /\ pc' = "loaded"
  /\ UNCHANGED <<disk, failing, csv_files, i, buildings, all_data, report,
                 attempts, written>>

----------------------------------------------------------------------------
\* BuildingManager.generate_summary_report

\* total, avg and max_kwh of one building; the mean is kept as sum / count
\* (count 0: NaN).
BuildingStat(b) ==
  LET col == KwhColumn(b.df.rows)
  IN [Building |-> b.name, Total |-> SumKwh(col),
      AvgNum |-> SumKwh(col), AvgDen |-> CountKwh(col), Max |-> MaxKwhOf(col)]

\* The for loop over self.buildings.items(): buildings with an empty df are
\* skipped.
RECURSIVE BuildingStats(_)
BuildingStats(bs) ==
  IF bs = <<>> THEN <<>>
  ELSE (IF Head(bs).df.rows = <<>> THEN <<>> ELSE <<BuildingStat(Head(bs))>>)
       \o BuildingStats(Tail(bs))

\* if total > highest_consumer[1]: highest_consumer = (name, total)
Exceeds(total, best) == total > best

RECURSIVE HighestFrom(_, _)
HighestFrom(stats, hc) ==
  IF stats = <<>> THEN hc
  ELSE HighestFrom(Tail(stats),
         IF Exceeds(Head(stats).Total, hc.total)
         THEN [name |-> Head(stats).Building, total |-> Head(stats).Total]
         ELSE hc)

\* highest_consumer = (None, 0), then the loop.
HighestConsumer(bs) == HighestFrom(BuildingStats(bs), [name |-> NoName, total |-> 0])

\* A building's kwh column holds strings: .sum() / .mean() raise.
StatsRaise(bs) ==
  \E k \in DOMAIN bs : bs[k].df.rows # <<>> /\ HasStr(KwhColumn(bs[k].df.rows))

\* combined_df.loc[combined_df['kwh'].idxmax()] raises when every kwh is NaN.
\* Variant: the peak row is looked up without the test for an empty table.
PeakRaisesUnguarded(df) == IdxMax(KwhColumn(df)) = 0

PeakRaises(df) == df # <<>> /\ IdxMax(KwhColumn(df)) = 0

PeakRow(df) == df[IdxMax(KwhColumn(df))]

\* Where generate_summary_report stops: the first statement that raises, in
\* program order, or "none". No statement of it is inside a try.
ReportStop(bs, df, bad) ==
  IF HasStr(KwhColumn(df)) THEN "total"
  ELSE IF StatsRaise(bs) THEN "stats"
  ELSE IF Outputs[1] \in bad THEN Outputs[1]
  ELSE IF PeakRaises(df) THEN "peak"
  ELSE IF Outputs[2] \in bad THEN Outputs[2]
  ELSE IF Outputs[3] \in bad THEN Outputs[3]
  ELSE "none"

\* The writes started before the report stops.
ReportAttempts(stop) ==
  IF stop \in {"total", "stats"} THEN <<>>
  ELSE IF stop \in {Outputs[1], "peak"} THEN SubSeq(Outputs, 1, 1)
  ELSE IF stop = Outputs[2] THEN SubSeq(Outputs, 1, 2)
  ELSE Outputs

SavedLog(tried, bad) ==
  [k \in 1..Len(SelectSeq(tried, LAMBDA o : o \notin bad)) |->
     Log("INFO", "saved", SelectSeq(tried, LAMBDA o : o \notin bad)[k])]

\* The results of a report that runs to its end: campus total, statistics
\* table, highest consumer and peak row.
ReportOf(bs, df) ==
  [state |-> "done",
   total |-> IF df # <<>> THEN SumKwh(KwhColumn(df)) ELSE 0,
   stats |-> BuildingStats(bs),
   highest |-> HighestConsumer(bs),
   peak |-> IF df # <<>> THEN <<PeakRow(df)>> ELSE <<>>]

\* What generate_summary_report writes, logs and reports.
ReportEffects ==
  /\ pc = "loaded"
  /\ LET stop == ReportStop(buildings, combined_df, failing)
         tried == ReportAttempts(stop)
     IN /\ attempts' = attempts \o tried
        /\ written' = written \cup (Range(tried) \ failing)
        /\ log' = log \o SavedLog(tried, failing)
        /\ IF stop = "none"
           THEN /\ report' = ReportOf(buildings, combined_df)
                /\ pc' = "reported"
           ELSE /\ report' = [state |-> "raised", at |-> stop]
                /\ pc' = "aborted"

\* Variant: the peak row is found by sorting combined_df in place by kwh,
\* largest first.
GenerateSummaryReportSortsInPlace ==
  /\ ReportEffects
  /\ combined_df' = IF combined_df = <<>> \/ IdxMax(KwhColumn(combined_df)) = 0
                    THEN combined_df
                    ELSE <<PeakRow(combined_df)>> \o
                         [k \in 1..(Len(combined_df) - 1) |->
                            IF k < IdxMax(KwhColumn(combined_df))
                            THEN combined_df[k] ELSE combined_df[k + 1]]
  /\ UNCHANGED <<disk, failing, csv_files, i, buildings, all_data>>

GenerateSummaryReport ==
  /\ ReportEffects
  /\ UNCHANGED <<disk, failing, csv_files, i, buildings, all_data, combined_df>>

----------------------------------------------------------------------------
\* BuildingManager.create_dashboard

\* resample needs a DatetimeIndex: a df left without one raises TypeError.
ResampleRaises(b) == b.df.rows # <<>> /\ ~b.df.indexed

\* An index holding nothing but NaT: whether resample raises depends on the
\* pandas release.
AllNaT(b) ==
  /\ b.df.rows # <<>>
  /\ b.df.indexed
  /\ \A k \in DOMAIN b.df.rows : b.df.rows[k].timestamp = NaT

PlotOutcomes(bs) ==
  IF \E k \in DOMAIN bs : ResampleRaises(bs[k]) THEN {"raises"}
  ELSE IF \E k \in DOMAIN bs : AllNaT(bs[k]) THEN {"raises", "plots"}
  ELSE {"plots"}

CreateDashboard ==
  /\ pc = "reported"
  /\ IF combined_df = <<>>
     THEN /\ log' = Append(log, Log("WARNING", "No data to visualize", NoName))
          /\ pc' = "done"
          /\ UNCHANGED <<attempts, written>>
     ELSE \E outcome \in PlotOutcomes(buildings) :
            IF outcome = "raises"
            THEN /\ pc' = "aborted"
                 /\ UNCHANGED <<log, attempts, written>>
            ELSE /\ attempts' = Append(attempts, DashboardFile)
                 /\ IF DashboardFile \in failing
                    THEN /\ pc' = "aborted"
                         /\ UNCHANGED <<log, written>>
                    ELSE /\ written' = written \cup {DashboardFile}
                         /\ log' = Append(log, Log("INFO", "saved", DashboardFile))
                         /\ pc' = "done"
  /\ UNCHANGED <<disk, failing, csv_files, i, buildings, all_data, combined_df,
                 report>>

----------------------------------------------------------------------------
----------------------------------------------------------------------------
\* Lab 3: library_inventory_manager.py
\* A text is a sequence of characters; " " is the blank.

RECURSIVE LStrip(_)
LStrip(s) == IF s # <<>> /\ Head(s) = " " THEN LStrip(Tail(s)) ELSE s

RECURSIVE RStrip(_)
RStrip(s) ==
  IF s # <<>> /\ s[Len(s)] = " " THEN RStrip(SubSeq(s, 1, Len(s) - 1)) ELSE s

\* str.strip()
Strip(s) == RStrip(LStrip(s))

\* str.lower(), over the characters the statuses are written with.
Lower(s) == [k \in DOMAIN s |-> IF s[k] = "ISSUED" THEN "issued" ELSE s[k]]

Available == <<"available">>
Issued == <<"issued">>

\* Book.__init__
Book(title, author, isbn, status) ==
  [title |-> Strip(title),
   author |-> Strip(author),
   isbn |-> Strip(isbn),
   status |-> IF status = <<>> THEN Available
              ELSE IF Lower(Strip(status)) \in {Available, Issued}
                   THEN Lower(Strip(status))
                   ELSE Available]

\* Book.to_dict
ToDict(b) ==
  [title |-> b.title, author |-> b.author, isbn |-> b.isbn, status |-> b.status]

\* Variant: issue reports success whatever the status was.
IssueAlways(b) == [book |-> [b EXCEPT !.status = Issued], ok |-> TRUE]

\* Book.issue: the book afterwards and the value returned.
Issue(b) ==
  IF b.status = Available
  THEN [book |-> [b EXCEPT !.status = Issued], ok |-> TRUE]
  ELSE [book |-> b, ok |-> FALSE]

\* Variant: return_book reports success whatever the status was.
ReturnAlways(b) == [book |-> [b EXCEPT !.status = Available], ok |-> TRUE]

\* Book.return_book: the book afterwards and the value returned.
ReturnBook(b) ==
  IF b.status = Issued
  THEN [book |-> [b EXCEPT !.status = Available], ok |-> TRUE]
  ELSE [book |-> b, ok |-> FALSE]

\* Book(**item): the keyword arguments title, author and isbn are required,
\* status has a default, any other keyword is a TypeError.
BookKeys == {"title", "author", "isbn", "status"}
RequiredKeys == {"title", "author", "isbn"}

BookRaises(item) == ~(RequiredKeys \subseteq DOMAIN item /\ DOMAIN item \subseteq BookKeys)

BookOfItem(item) ==
  Book(item.title, item.author, item.isbn,
       IF "status" \in DOMAIN item THEN item.status ELSE Available)

\* The catalog file: absent, not openable, not JSON, JSON that is not a list,
\* or a JSON list of objects.
NoCatalog == [kind |-> "absent", items |-> <<>>]
Truncated == [kind |-> "badjson", items |-> <<>>]

\* json.dump([b.to_dict() for b in self.books])
Dump(bs) == [kind |-> "list", items |-> [k \in DOMAIN bs |-> ToDict(bs[k])]]

LibLog(level, msg) == [level |-> level, msg |-> msg]

\* LibraryInventory.load_books: the books, whether the call raises, the records
\* logged. Only json.JSONDecodeError and OSError are caught (l.78).
LoadBooks(f) ==
  IF f.kind = "absent"
  THEN [books |-> <<>>, raised |-> FALSE, log |-> <<LibLog("INFO", "not found")>>]
  ELSE IF f.kind \in {"unreadable", "badjson", "notlist"}
  THEN [books |-> <<>>, raised |-> FALSE, log |-> <<LibLog("ERROR", "failed to load")>>]
  ELSE IF \E k \in DOMAIN f.items : BookRaises(f.items[k])
  THEN [books |-> <<>>, raised |-> TRUE, log |-> <<>>]
  ELSE [books |-> [k \in DOMAIN f.items |-> BookOfItem(f.items[k])],
        raised |-> FALSE, log |-> <<LibLog("INFO", "loaded")>>]

\* LibraryInventory.search_by_isbn: the position of the first book with the
\* stripped ISBN, 0 for None.
SearchByIsbn(bs, isbn) ==
  IF \E k \in DOMAIN bs : bs[k].isbn = Strip(isbn)
  THEN CHOOSE k \in DOMAIN bs :
         /\ bs[k].isbn = Strip(isbn)
         /\ \A j \in DOMAIN bs : bs[j].isbn = Strip(isbn) => k <= j
  ELSE 0

\* Variant: add_book without the test for an ISBN already present.
AddBookNoDuplicateTest(bs, title, author, isbn) ==
  IF Strip(title) = <<>> \/ Strip(author) = <<>> \/ Strip(isbn) = <<>>
  THEN [books |-> bs, ok |-> FALSE, log |-> <<LibLog("ERROR", "fields required")>>]
  ELSE [books |-> Append(bs, Book(Strip(title), Strip(author), Strip(isbn), Available)),
        ok |-> TRUE, log |-> <<LibLog("INFO", "added")>>]

\* Variant: add_book without the test for empty fields.
AddBookNoEmptyTest(bs, title, author, isbn) ==
  IF \E k \in DOMAIN bs : bs[k].isbn = Strip(isbn)
  THEN [books |-> bs, ok |-> FALSE, log |-> <<LibLog("ERROR", "already exists")>>]
  ELSE [books |-> Append(bs, Book(Strip(title), Strip(author), Strip(isbn), Available)),
        ok |-> TRUE, log |-> <<LibLog("INFO", "added")>>]

\* LibraryInventory.add_book up to save_books: the books afterwards, whether a
\* Book is returned (not None), the records logged.
AddBook(bs, title, author, isbn) ==
  IF Strip(title) = <<>> \/ Strip(author) = <<>> \/ Strip(isbn) = <<>>
  THEN [books |-> bs, ok |-> FALSE, log |-> <<LibLog("ERROR", "fields required")>>]
  ELSE IF \E k \in DOMAIN bs : bs[k].isbn = Strip(isbn)
  THEN [books |-> bs, ok |-> FALSE, log |-> <<LibLog("ERROR", "already exists")>>]
  ELSE [books |-> Append(bs, Book(Strip(title), Strip(author), Strip(isbn), Available)),
        ok |-> TRUE, log |-> <<LibLog("INFO", "added")>>]

\* Variant: save_books appends the books to the list the file holds.
SaveBooksAppending(bs) ==
  IF writable
  THEN catalog' = [kind |-> "list", items |-> catalog.items \o Dump(bs).items]
  ELSE catalog' \in {catalog, Truncated}

\* LibraryInventory.save_books: open(..., 'w') and json.dump. An OSError is
\* caught and logged; the catalog is then as it was (open failed) or cut short
\* (the write failed).
SaveBooks(bs) ==
  IF writable THEN catalog' = Dump(bs) ELSE catalog' \in {catalog, Truncated}

SaveLog == IF writable THEN <<LibLog("INFO", "saved")>>
           ELSE <<LibLog("ERROR", "failed to save")>>

Op(op, title, author, isbn, ok, saved, lg) ==
  [op |-> op, title |-> title, author |-> author, isbn |-> isbn,
   ok |-> ok, saved |-> saved, log |-> lg]

NoOp == Op("none", <<>>, <<>>, <<>>, FALSE, FALSE, <<>>)

\* What is typed at a prompt, and the arguments of a call of add_book.
TitleInputs == {<<"t">>, <<" ", "t">>, <<" ">>}
AuthorInputs == {<<"a">>, <<>>}
IsbnInputs == {<<"1">>, <<" ", "1">>, <<"2">>, <<" ">>}

\* prompt_non_empty: asks again until the stripped line is not empty.
PromptNonEmpty(typed) == {Strip(x) : x \in typed} \ {<<>>}

\* LibraryInventory(): __init__ and load_books. main() calls it outside its try.
Construct ==
  /\ lpc = "start"
  /\ books' = LoadBooks(catalog).books
  /\ lpc' = IF LoadBooks(catalog).raised THEN "raised" ELSE "menu"
  /\ last' = Op("load", <<>>, <<>>, <<>>, ~LoadBooks(catalog).raised, FALSE,
                LoadBooks(catalog).log)
  /\ before' = books
  /\ UNCHANGED <<catalog, writable, mutated>>

\* add_book(title, author, isbn) with save_books (l.90-102).
DoAdd(title, author, isbn) ==
  /\ lpc = "menu"
  /\ LET r == AddBook(books, title, author, isbn)
     IN IF r.ok
        THEN /\ Len(books) < MaxBooks
             /\ books' = r.books
             /\ SaveBooks(r.books)
             /\ mutated' = TRUE
             /\ last' = Op("add", title, author, isbn, TRUE, TRUE, SaveLog \o r.log)
        ELSE /\ last' = Op("add", title, author, isbn, FALSE, FALSE, r.log)
             /\ UNCHANGED <<books, catalog, mutated>>
  /\ before' = books
  /\ UNCHANGED <<writable, lpc>>

\* Menu choice 1 (l.146-150).
MenuAdd ==
  \E title \in PromptNonEmpty(TitleInputs), author \in PromptNonEmpty(AuthorInputs),
     isbn \in PromptNonEmpty(IsbnInputs) :
    DoAdd(title, author, isbn)

\* A call of add_book with arguments not passed through prompt_non_empty.
AddBookCall ==
  \E title \in TitleInputs, author \in AuthorInputs, isbn \in IsbnInputs :
    /\ Strip(title) # title \/ Strip(author) # author \/ Strip(isbn) # isbn
    /\ DoAdd(title, author, isbn)

\* Menu choice 2 (l.151-158).
MenuIssue ==
  /\ lpc = "menu"
  /\ \E isbn \in PromptNonEmpty(IsbnInputs) :
       LET k == SearchByIsbn(books, isbn)
       IN IF k # 0 /\ Issue(books[k]).ok
          THEN /\ books' = [books EXCEPT ![k] = Issue(books[k]).book]
               /\ SaveBooks(books')
               /\ mutated' = TRUE
               /\ last' = Op("issue", <<>>, <<>>, isbn, TRUE, TRUE, SaveLog)
          ELSE /\ last' = Op("issue", <<>>, <<>>, isbn, FALSE, FALSE, <<>>)
               /\ UNCHANGED <<books, catalog, mutated>>
  /\ before' = books
  /\ UNCHANGED <<writable, lpc>>

\* Menu choice 3 (l.159-166).
MenuReturn ==
  /\ lpc = "menu"
  /\ \E isbn \in PromptNonEmpty(IsbnInputs) :
       LET k == SearchByIsbn(books, isbn)
       IN IF k # 0 /\ ReturnBook(books[k]).ok
          THEN /\ books' = [books EXCEPT ![k] = ReturnBook(books[k]).book]
               /\ SaveBooks(books')
               /\ mutated' = TRUE
               /\ last' = Op("return", <<>>, <<>>, isbn, TRUE, TRUE, SaveLog)
          ELSE /\ last' = Op("return", <<>>, <<>>, isbn, FALSE, FALSE, <<>>)
               /\ UNCHANGED <<books, catalog, mutated>>
  /\ before' = books
  /\ UNCHANGED <<writable, lpc>>

\* Menu choices 4, 5, 6 and an invalid choice (l.167-184, 188-189): they print.
MenuView ==
  /\ lpc = "menu"
  /\ last' = Op("view", <<>>, <<>>, <<>>, TRUE, FALSE, <<>>)
  /\ before' = books
  /\ UNCHANGED <<catalog, writable, lpc, books, mutated>>

\* Menu choice 7 (l.185-187).
MenuExit ==
  /\ lpc = "menu"
  /\ lpc' = "exited"
  /\ last' = Op("exit", <<>>, <<>>, <<>>, TRUE, FALSE, <<>>)
  /\ before' = books
  /\ UNCHANGED <<catalog, writable, books, mutated>>

\* The library program has not been started.
NoLibrary ==
  /\ catalog = NoCatalog
  /\ writable = TRUE
  /\ lpc = "idle"
  /\ books = <<>>
  /\ last = NoOp
  /\ before = <<>>
  /\ mutated = FALSE

----------------------------------------------------------------------------
\* Lab 4: weather_data_visualizer.py

\* The values main returns.
MissingInput == 2
LoadFailed == 3
Success == 0

\* The key columns load_and_clean infers, by their first candidate name.
KeyColumns == {"date", "temperature", "rainfall", "humidity"}

PlotFiles == <<"daily_temperature.png", "monthly_rainfall.png",
               "humidity_vs_temperature.png", "combo_temp_rain.png">>
CleanedCsv == "cleaned_weather.csv"
ReportFile == "weather_report.md"
WeatherOutputs == Range(PlotFiles) \cup {CleanedCsv, ReportFile}

\* The columns each plot needs (the tests that open the plot_ functions).
PlotNeeds == <<{"temperature"}, {"rainfall"}, {"humidity", "temperature"},
               {"temperature", "rainfall"}>>

\* What the path holds: nothing; something pd.read_csv raises on; or a table
\* with some of the key columns, with or without a column of another name that
\* pd.to_datetime parses (datelike; without it no column parses as dates), and
\* with or without rows left after cleaning.
NoPath == [exists |-> FALSE, kind |-> "none", cols |-> {}, datelike |-> FALSE,
           rows |-> FALSE]

WeatherInputs ==
  {NoPath,
   [exists |-> TRUE, kind |-> "unreadable", cols |-> {}, datelike |-> FALSE,
    rows |-> FALSE]}
  \cup [exists : {TRUE}, kind : {"csv"}, cols : SUBSET KeyColumns,
        datelike : BOOLEAN, rows : BOOLEAN]

\* Variant: load_and_clean without the raise for a table without a date column.
LoadAndCleanRaisesOnReadOnly(inp) == inp.kind # "csv"

\* load_and_clean raises: from pd.read_csv (l.79), or the ValueError of
\* l.107-108 when no date candidate is a column and no column parses as dates.
LoadAndCleanRaises(inp) ==
  inp.kind # "csv" \/ ("date" \notin inp.cols /\ ~inp.datelike)

\* The mapping load_and_clean returns: the key columns the table has.
Mapping(inp) == inp.cols \ {"date"}

WNoReturn == <<>>

\* main(), l.360-371: the output directory is made, the path is tested.
WCheckInput ==
  /\ wpc = "start"
  /\ IF ~winput.exists
     THEN /\ wlog' = Append(wlog, <<"ERROR", "CSV file does not exist">>)
          /\ wcode' = <<MissingInput>>
          /\ wpc' = "exit"
     ELSE /\ wpc' = "load"
          /\ UNCHANGED <<wlog, wcode>>
  /\ UNCHANGED <<winput, wfailing, wfiles>>

\* main(), l.373-377.
WLoad ==
  /\ wpc = "load"
  /\ IF LoadAndCleanRaises(winput)
     THEN /\ wlog' = Append(wlog, <<"ERROR", "Failed to load/clean data">>)
          /\ wcode' = <<LoadFailed>>
          /\ wpc' = "exit"
     ELSE /\ wlog' = Append(wlog, <<"INFO", "Data loaded">>)
          /\ wpc' = "stats"
          /\ UNCHANGED wcode
  /\ UNCHANGED <<winput, wfailing, wfiles>>

\* main(), l.380-381: compute_statistics is not inside a try; on a table
\* without rows it may raise.
WStats ==
  /\ wpc = "stats"
  /\ \/ /\ wlog' = Append(wlog, <<"INFO", "Computed statistics">>)
        /\ wpc' = "plot1"
     \/ /\ ~winput.rows
        /\ Mapping(winput) # {}
        /\ wpc' = "raised"
        /\ UNCHANGED wlog
  /\ UNCHANGED <<winput, wfailing, wcode, wfiles>>

\* One plot_ function: a warning and None when a column it needs is missing,
\* else the figure is saved; savefig is not inside a try, and plotting a table
\* without rows may raise.
PlotStep(k, here, next) ==
  /\ wpc = here
  /\ IF ~(PlotNeeds[k] \subseteq Mapping(winput))
     THEN /\ wlog' = Append(wlog, <<"WARNING", PlotFiles[k]>>)
          /\ wpc' = next
          /\ UNCHANGED wfiles
     ELSE \/ /\ PlotFiles[k] \notin wfailing
             /\ wfiles' = wfiles \cup {PlotFiles[k]}
             /\ wpc' = next
             /\ UNCHANGED wlog
          \/ /\ PlotFiles[k] \in wfailing \/ ~winput.rows
             /\ wpc' = "raised"
             /\ UNCHANGED <<wlog, wfiles>>
  /\ UNCHANGED <<winput, wfailing, wcode>>

\* main(), l.385-388.
WPlotDailyTemperature == PlotStep(1, "plot1", "plot2")
WPlotMonthlyRainfall == PlotStep(2, "plot2", "plot3")
WPlotHumidityVsTemperature == PlotStep(3, "plot3", "plot4")
WPlotCombo == PlotStep(4, "plot4", "export")

\* main(), l.391: export_cleaned_csv.
WExport ==
  /\ wpc = "export"
  /\ IF CleanedCsv \in wfailing
     THEN wpc' = "raised" /\ UNCHANGED wfiles
     ELSE wpc' = "report" /\ wfiles' = wfiles \cup {CleanedCsv}
  /\ UNCHANGED <<winput, wfailing, wcode, wlog>>

\* main(), l.392-402: write_report, the closing records, return 0.
WReport ==
  /\ wpc = "report"
  /\ IF ReportFile \in wfailing
     THEN /\ wpc' = "raised"
          /\ UNCHANGED <<wfiles, wlog, wcode>>
     ELSE /\ wfiles' = wfiles \cup {ReportFile}
          /\ wlog' = wlog \o <<<<"INFO", "Saved cleaned CSV">>, <<"INFO", "Saved report">>>>
          /\ wcode' = <<Success>>
          /\ wpc' = "exit"
  /\ UNCHANGED <<winput, wfailing>>

\* The visualizer has not been started.
NoWeather ==
  /\ winput = NoPath
  /\ wfailing = {}
  /\ wpc = "idle"
  /\ wcode = WNoReturn
  /\ wfiles = {}
  /\ wlog = <<>>

NoReport == [state |-> "none"]

\* The state after BuildingManager(data_dir), over every data directory of at
\* most MaxRows rows.
InitModel ==
  /\ \E na \in 0..MaxRows : \E nb \in 0..(MaxRows - na) :
       \E fa \in FilesWithRows(na), fb \in FilesWithRows(nb) :
         disk = [n \in Names |-> IF n = "A" THEN fa ELSE fb]
  /\ pc = "main"
  /\ csv_files = <<>>
  /\ i = 1
  /\ buildings = <<>>
  /\ all_data = <<>>
  /\ combined_df = <<>>
  /\ log = <<>>
  /\ report = NoReport
  /\ attempts = <<>>
  /\ written = {}

\* No source is being split.
NoDaily ==
  /\ source = Building("A")
  /\ chunks = <<>>
  /\ totals = <<>>

\* Every output file can be written.
Init == InitModel /\ failing = {} /\ NoDaily /\ NoLibrary /\ NoWeather

\* The same, with at most one output file that cannot be written.
InitIO == InitModel /\ failing \in {{}} \cup {{o} : o \in AllOutputs}
            /\ NoDaily /\ NoLibrary /\ NoWeather

\* main()
Next ==
  \/ LoadGlob /\ UNCHANGED outsideEnergy
  \/ LoadFile /\ UNCHANGED outsideEnergy
  \/ LoadFinish /\ UNCHANGED outsideEnergy
  \/ GenerateSummaryReport /\ UNCHANGED outsideEnergy
  \/ CreateDashboard /\ UNCHANGED outsideEnergy

Spec == Init /\ [][Next]_vars

SpecIO == InitIO /\ [][Next]_vars

----------------------------------------------------------------------------
\* A source and a split of its rows into two chunks, each loaded into a
\* Building of its own (add_reading for every row, then process_readings).

SourceRows ==
  UNION {[1..n -> [timestamp : DailyTimes, kwh : (0..MaxKwh) \cup {NaN}]] :
           n \in 0..MaxSourceRows}

\* The rows of s at the positions of S, in order.
RECURSIVE Pick(_, _)
Pick(s, S) ==
  IF s = <<>> THEN <<>>
  ELSE Pick(SubSeq(s, 1, Len(s) - 1), S)
       \o (IF Len(s) \in S THEN <<s[Len(s)]>> ELSE <<>>)

LoadedSource(rows) == ProcessReadings(AddReadings(Building("A"), rows))

NoMain ==
  /\ disk = [n \in Names |-> Absent]
  /\ failing = {}
  /\ pc = "idle"
  /\ csv_files = <<>>
  /\ i = 1
  /\ buildings = <<>>
  /\ all_data = <<>>
  /\ combined_df = <<>>
  /\ log = <<>>
  /\ report = NoReport
  /\ attempts = <<>>
  /\ written = {}

InitDaily ==
  /\ NoMain
  /\ NoLibrary
  /\ NoWeather
  /\ \E rows \in SourceRows : source = LoadedSource(rows)
  /\ chunks = <<>>
  /\ totals = <<>>

SplitSource ==
  /\ chunks = <<>>
  /\ \E S \in SUBSET (DOMAIN source.readings) :
       chunks' = <<LoadedSource(Pick(source.readings, S)),
                   LoadedSource(Pick(source.readings, (DOMAIN source.readings) \ S))>>
  /\ UNCHANGED <<source, totals, outsideDaily>>

ComputeDaily ==
  /\ chunks # <<>>
  /\ totals = <<>>
  /\ totals' = <<DailyTotals(source), DailyTotals(chunks[1]), DailyTotals(chunks[2])>>
  /\ UNCHANGED <<source, chunks, outsideDaily>>

NextDaily == SplitSource \/ ComputeDaily

SpecDaily == InitDaily /\ [][NextDaily]_vars

----------------------------------------------------------------------------
\* The library program: a catalog file, then main().

\* The objects a catalog file's list may hold: book records as save_books
\* writes them, records with a padded ISBN or another spelling of the status,
\* a record without the status key, one without the title key, one with a key
\* Book does not take.
Entry(isbn, status) ==
  [title |-> <<"t">>, author |-> <<"a">>, isbn |-> isbn, status |-> status]

FileItems ==
  {Entry(n, st) : n \in {<<"1">>, <<"2">>}, st \in {Available, Issued}}
  \cup {Entry(<<" ", "1">>, Available),
        Entry(<<"1">>, <<" ", "ISSUED">>),
        Entry(<<"2">>, <<"lost">>),
        Entry(<<"2">>, <<>>),
        [title |-> <<"t">>, author |-> <<"a">>, isbn |-> <<"1">>],
        [author |-> <<"a">>, isbn |-> <<"1">>, status |-> Available],
        [title |-> <<"t">>, author |-> <<"a">>, isbn |-> <<"1">>,
         status |-> Available, year |-> <<"2">>]}

CatalogFiles ==
  {NoCatalog, Truncated,
   [kind |-> "unreadable", items |-> <<>>], [kind |-> "notlist", items |-> <<>>]}
  \cup {[kind |-> "list", items |-> it] :
          it \in UNION {[1..n -> FileItems] : n \in 0..MaxBooks}}

InitLibrary ==
  /\ NoMain
  /\ NoDaily
  /\ NoWeather
  /\ catalog \in CatalogFiles
  /\ writable \in BOOLEAN
  /\ lpc = "start"
  /\ books = <<>>
  /\ last = NoOp
  /\ before = <<>>
  /\ mutated = FALSE

NextLibrary ==
  \/ Construct /\ UNCHANGED outsideLibrary
  \/ MenuAdd /\ UNCHANGED outsideLibrary
  \/ AddBookCall /\ UNCHANGED outsideLibrary
  \/ MenuIssue /\ UNCHANGED outsideLibrary
  \/ MenuReturn /\ UNCHANGED outsideLibrary
  \/ MenuView /\ UNCHANGED outsideLibrary
  \/ MenuExit /\ UNCHANGED outsideLibrary

SpecLibrary == InitLibrary /\ [][NextLibrary]_vars

----------------------------------------------------------------------------
\* The weather visualizer: a path, at most one output that cannot be written,
\* then main().

InitWeather ==
  /\ NoMain
  /\ NoDaily
  /\ NoLibrary
  /\ winput \in WeatherInputs
  /\ wfailing \in {{}} \cup {{o} : o \in WeatherOutputs}
  /\ wpc = "start"
  /\ wcode = WNoReturn
  /\ wfiles = {}
  /\ wlog = <<>>

NextWeather ==
  \/ WCheckInput /\ UNCHANGED outsideWeather
  \/ WLoad /\ UNCHANGED outsideWeather
  \/ WStats /\ UNCHANGED outsideWeather
  \/ WPlotDailyTemperature /\ UNCHANGED outsideWeather
  \/ WPlotMonthlyRainfall /\ UNCHANGED outsideWeather
  \/ WPlotHumidityVsTemperature /\ UNCHANGED outsideWeather
  \/ WPlotCombo /\ UNCHANGED outsideWeather
  \/ WExport /\ UNCHANGED outsideWeather
  \/ WReport /\ UNCHANGED outsideWeather

SpecWeather == InitWeather /\ [][NextWeather]_vars

----------------------------------------------------------------------------
\* Properties of load_data and of the summary report.

Loaded == pc \in {"loaded", "reported", "done", "aborted"}

\* The files whose loop iteration is over.
Processed ==
  IF pc = "main" THEN {}
  ELSE IF pc = "loading" THEN {csv_files[k] : k \in 1..(i - 1)}
  ELSE Range(csv_files)

Present == {n \in Names : disk[n].kind # "absent"}

Count(s, x) == Cardinality({k \in DOMAIN s : s[k] = x})

SameRows(a, b) == Len(a) = Len(b) /\ \A k \in DOMAIN a : Count(a, a[k]) = Count(b, a[k])

RowsOf(df, name) == SelectSeq(df, LAMBDA r : r.building = name)

Untag(rows) == [k \in DOMAIN rows |-> MeterReading(rows[k].timestamp, rows[k].kwh)]

RECURSIVE BuildingRows(_)
BuildingRows(bs) ==
  IF bs = <<>> THEN 0 ELSE Len(Head(bs).df.rows) + BuildingRows(Tail(bs))

RECURSIVE SumTotals(_)
SumTotals(stats) ==
  IF stats = <<>> THEN 0 ELSE Head(stats).Total + SumTotals(Tail(stats))

RECURSIVE AcceptedKwh(_)
AcceptedKwh(bs) ==
  IF bs = <<>> THEN <<>> ELSE KwhColumn(Head(bs).readings) \o AcceptedKwh(Tail(bs))

\* The directory's files hold only timestamps of ts and kwh values of kw.
OnlyCells(ts, kw) ==
  \A n \in Names : \A k \in DOMAIN disk[n].rows :
    (disk[n].cols = RequiredColumns) =>
      disk[n].rows[k].timestamp \in ts /\ disk[n].rows[k].kwh \in kw

HasLog(level, msg, about) == \E k \in DOMAIN log : log[k] = Log(level, msg, about)

\* C1: once load_data has finished, combined_df has as many rows as the
\* buildings' tables together, and each building's table holds exactly the rows
\* the combined table holds for it. Stated for files whose kwh values are all
\* numbers and whose timestamps are all present.
C1_CombinedMatchesBuildings ==
  (Loaded /\ OnlyCells(Times \cup {BadTime}, 0..MaxKwh)) =>
    /\ Len(combined_df) = BuildingRows(buildings)
    /\ \A k \in DOMAIN buildings :
         SameRows(buildings[k].df.rows, Untag(RowsOf(combined_df, buildings[k].name)))
    /\ \A k \in DOMAIN combined_df : HasBuilding(buildings, combined_df[k].building)

\* C2: the reported campus total is the sum of all accepted kwh values and of
\* the per-building totals of the statistics table; each building's total,
\* average and max are the sum, mean and maximum of its own accepted readings.
\* Stated for files whose kwh values are all numbers and whose timestamps are
\* all present.
C2_TotalsAgree ==
  (report.state = "done" /\ OnlyCells(Times \cup {BadTime}, 0..MaxKwh)) =>
    /\ report.total = SumKwh(AcceptedKwh(buildings))
    /\ report.total = SumTotals(report.stats)
    /\ \A k \in DOMAIN report.stats :
         \E j \in DOMAIN buildings :
           /\ buildings[j].name = report.stats[k].Building
           /\ report.stats[k].Total = SumKwh(KwhColumn(buildings[j].readings))
           /\ report.stats[k].AvgNum = SumKwh(KwhColumn(buildings[j].readings))
           /\ report.stats[k].AvgDen = CountKwh(KwhColumn(buildings[j].readings))
           /\ report.stats[k].Max = MaxKwhOf(KwhColumn(buildings[j].readings))

\* C3: with at least one source holding rows (here: of well-formed files only),
\* the report names as highest consumer the source of largest total, the first
\* such in load order.
C3_HighestIsLargest ==
  (report.state = "done" /\ report.stats # <<>> /\ OnlyCells(Times, 0..MaxKwh)) =>
    \E k \in DOMAIN report.stats :
      /\ report.highest.name = report.stats[k].Building
      /\ report.highest.total = report.stats[k].Total
      /\ \A j \in DOMAIN report.stats : report.stats[j].Total <= report.stats[k].Total
      /\ \A j \in 1..(k - 1) : report.stats[j].Total < report.stats[k].Total

\* C4: with a non-empty combined table, the reported peak is one row of the
\* combined table, the first whose kwh is the maximum over all rows of all
\* sources. Stated for files whose kwh values are all numbers and whose
\* timestamps are all present.
C4_PeakIsMaximum ==
  (/\ report.state = "done"
   /\ combined_df # <<>>
   /\ OnlyCells(Times \cup {BadTime}, 0..MaxKwh)) =>
    /\ Len(report.peak) = 1
    /\ \E k \in DOMAIN combined_df :
         /\ combined_df[k] = report.peak[1]
         /\ \A j \in 1..(k - 1) : combined_df[j].kwh # report.peak[1].kwh
    /\ \A k \in DOMAIN buildings : \A j \in DOMAIN buildings[k].df.rows :
         buildings[k].df.rows[j].kwh <= report.peak[1].kwh

\* C5: a file with a row whose kwh is not a number still gets its other rows
\* into the report: the report is produced and the building's total is the sum
\* of the file's numeric kwh values. Stated for files whose timestamps all parse
\* and whose kwh cells are all filled.
C5_BadKwhRowDropped ==
  \A n \in Names :
    (/\ report.state # "none"
     /\ OnlyCells(Times, (0..MaxKwh) \cup {BadNum})
     /\ disk[n].kind = "csv"
     /\ disk[n].cols = RequiredColumns
     /\ HasStr(KwhColumn(disk[n].rows))
     /\ CountKwh(KwhColumn(disk[n].rows)) > 0) =>
      /\ report.state = "done"
      /\ \E k \in DOMAIN report.stats :
           /\ report.stats[k].Building = n
           /\ report.stats[k].Total = SumKwh(KwhColumn(disk[n].rows))

\* C6: a row without a timestamp value or without a kwh value becomes neither a
\* reading nor a row of the combined table, and a warning is logged for its file.
\* Stated for files whose filled cells are all parseable times and numbers.
C6_IncompleteRowsSkipped ==
  OnlyCells(Times \cup {NaT}, (0..MaxKwh) \cup {NaN}) =>
  /\ \A k \in DOMAIN buildings : \A j \in DOMAIN buildings[k].readings :
       /\ buildings[k].readings[j].timestamp # NaT
       /\ buildings[k].readings[j].kwh # NaN
  /\ \A k \in DOMAIN combined_df :
       combined_df[k].timestamp # NaT /\ combined_df[k].kwh # NaN
  /\ \A n \in Processed :
       (/\ disk[n].cols = RequiredColumns
        /\ \E k \in DOMAIN disk[n].rows :
             disk[n].rows[k].timestamp = NaT \/ disk[n].rows[k].kwh = NaN)
       => \E k \in DOMAIN log : log[k].level = "WARNING" /\ log[k].about = n

LacksColumn(n) == disk[n].kind = "csv" /\ disk[n].cols # RequiredColumns

\* C7: a file lacking the timestamp or the kwh column creates no building and
\* adds no row to the combined table, an error is logged for it, and every other
\* file is still processed, in whatever order glob lists the files.
C7_MissingColumnFileSkipped ==
  /\ \A n \in Processed :
       LacksColumn(n) =>
         /\ ~HasBuilding(buildings, n)
         /\ \A k \in DOMAIN all_data : \A j \in DOMAIN all_data[k] :
              all_data[k][j].building # n
         /\ \A k \in DOMAIN combined_df : combined_df[k].building # n
         /\ HasLog("ERROR", "Skipping: missing columns", n)
  /\ Loaded =>
       /\ Range(csv_files) = Present
       /\ \A n \in Present : HasLog("INFO", "Loading", n)
       /\ \A n \in Present :
            (disk[n].kind = "csv" /\ disk[n].cols = RequiredColumns) =>
              \E k \in DOMAIN buildings :
                /\ buildings[k].name = n
                /\ buildings[k].readings = Untag(disk[n].rows)

C7_Witness ==
  /\ Loaded
  /\ Len(csv_files) = 2
  /\ LacksColumn(csv_files[1])
  /\ disk[csv_files[1]].rows # <<>>
  /\ combined_df # <<>>
  /\ \A k \in DOMAIN combined_df : combined_df[k].building = csv_files[2]

\* A file whose iteration raises: read_csv fails, or a timestamp of it cannot be
\* parsed.
FileRaises(n) ==
  \/ disk[n].kind = "unreadable"
  \/ /\ disk[n].kind = "csv"
     /\ disk[n].cols = RequiredColumns
     /\ \E k \in DOMAIN disk[n].rows : disk[n].rows[k].timestamp = BadTime

FileLoads(n) ==
  /\ disk[n].kind = "csv"
  /\ disk[n].cols = RequiredColumns
  /\ \A k \in DOMAIN disk[n].rows : disk[n].rows[k].timestamp # BadTime

\* The combined table of the files of `order` that load, the others left out.
RECURSIVE LoadedFrames(_)
LoadedFrames(order) ==
  IF order = <<>> THEN <<>>
  ELSE (IF FileLoads(Head(order))
        THEN [k \in DOMAIN disk[Head(order)].rows |->
                [timestamp |-> disk[Head(order)].rows[k].timestamp,
                 kwh |-> disk[Head(order)].rows[k].kwh,
                 building |-> Head(order)]]
        ELSE <<>>)
       \o LoadedFrames(Tail(order))

\* C8: a file whose reading or processing raises is logged as an error and the
\* loop goes on; load_data itself does not raise, and the files before and after
\* it are loaded as if the bad file were not there.
C8_BadFileIsolated ==
  /\ \A n \in Processed : FileRaises(n) => HasLog("ERROR", "Error reading", n)
  /\ pc = "aborted" => report.state # "none"
  /\ Loaded =>
       /\ Range(csv_files) = Present
       /\ combined_df = LoadedFrames(csv_files)
       /\ \A n \in Present :
            FileLoads(n) =>
              \E k \in DOMAIN buildings :
                /\ buildings[k].name = n
                /\ buildings[k].readings = Untag(disk[n].rows)
                /\ SameRows(buildings[k].df.rows, Untag(disk[n].rows))
                /\ (disk[n].rows # <<>> => buildings[k].df.indexed)

C8_Witness ==
  /\ Loaded
  /\ Len(csv_files) = 2
  /\ FileRaises(csv_files[1])
  /\ disk[csv_files[1]].kind = "csv"
  /\ FileLoads(csv_files[2])
  /\ combined_df # <<>>

\* C9: with no CSV file, buildings and the combined table stay empty, the report
\* completes with a total of 0 and writes the summary, and create_dashboard
\* writes no image, logs a warning and does not raise.
C9_EmptyDirectory ==
  (pc # "main" /\ csv_files = <<>>) =>
    /\ buildings = <<>>
    /\ combined_df = <<>>
    /\ pc # "aborted"
    /\ HasLog("WARNING", "No CSV files found", NoName)
    /\ report.state # "none" =>
         /\ report.state = "done"
         /\ report.total = 0
         /\ "summary.txt" \in written
    /\ pc = "done" =>
         /\ \A k \in DOMAIN attempts : attempts[k] # DashboardFile
         /\ DashboardFile \notin written
         /\ HasLog("WARNING", "No data to visualize", NoName)

C9_Witness ==
  /\ pc = "done"
  /\ csv_files = <<>>
  /\ report.state = "done"
  /\ report.total = 0
  /\ DashboardFile \notin written

\* C10: a write of an output file that fails is logged and does not abort the
\* run, and no output is written twice.
C10_WriteFailureContinues ==
  /\ \A k \in DOMAIN attempts :
       attempts[k] \in failing =>
         /\ pc # "aborted"
         /\ HasLog("ERROR", "write failed", attempts[k])
  /\ \A j, k \in DOMAIN attempts : j # k => attempts[j] # attempts[k]

\* Rows in ascending order of timestamp, NaT last.
Ordered(rows) ==
  \A j, k \in DOMAIN rows :
    j < k => ~TsBefore(rows[k].timestamp, rows[j].timestamp)

\* C11: after every file of load_data, each building's table holds exactly the
\* readings added so far and, when it holds rows, is indexed by time and sorted
\* by timestamp ascending. Stated for files whose kwh values are all numbers and
\* whose timestamps are all present.
C11_TableSortedAndComplete ==
  OnlyCells(Times \cup {BadTime}, 0..MaxKwh) =>
    \A k \in DOMAIN buildings :
      /\ SameRows(buildings[k].df.rows, buildings[k].readings)
      /\ buildings[k].df.rows # <<>> =>
           buildings[k].df.indexed /\ Ordered(buildings[k].df.rows)

\* The value of a daily Series on day d, 0 for a day it does not hold.
At(series, d) == IF d \in DOMAIN series THEN series[d] ELSE 0

\* C12: for every source and every split of its rows into two chunks, the daily
\* totals of the chunks, added day by day (0 for a day a chunk lacks), are the
\* daily totals of the whole source.
C12_DailyTotalsAdd ==
  totals # <<>> =>
    \A d \in 0..(LastDay) :
      At(totals[2], d) + At(totals[3], d) = At(totals[1], d)

C12_Witness ==
  /\ totals # <<>>
  /\ \E d \in DOMAIN totals[2] \cap DOMAIN totals[3] :
       totals[2][d] > 0 /\ totals[3][d] > 0
  /\ \E d \in DOMAIN totals[1] : d \notin DOMAIN totals[3] /\ totals[1][d] = 0

\* C13: generate_summary_report and create_dashboard leave the buildings, their
\* readings and tables, and the combined table as load_data left them; the
\* results of a finished report are those a report run again on the state
\* reached would give.
C13_ReportsReadOnly ==
  [][(pc \in {"loaded", "reported"}) =>
       /\ buildings' = buildings
       /\ combined_df' = combined_df
       /\ all_data' = all_data
       /\ csv_files' = csv_files
       /\ (report'.state = "done" => report' = ReportOf(buildings', combined_df'))]_vars

C13_Witness ==
  /\ pc = "done"
  /\ report.state = "done"
  /\ DashboardFile \in written
  /\ Len(combined_df) = 2
  /\ combined_df[1].kwh < combined_df[2].kwh

----------------------------------------------------------------------------
\* Claims on the library inventory manager

\* The entries a catalog file holds.
Entries(f) == IF f.kind = "list" THEN f.items ELSE <<>>

\* A file as save_books writes it, or no file.
Canonical(f) ==
  /\ f.kind \in {"absent", "list"}
  /\ \A k \in DOMAIN f.items :
       /\ DOMAIN f.items[k] = BookKeys
       /\ f.items[k].title = Strip(f.items[k].title)
       /\ f.items[k].author = Strip(f.items[k].author)
       /\ f.items[k].isbn = Strip(f.items[k].isbn)
       /\ f.items[k].status \in {Available, Issued}

UniqueIsbns(bs) == \A j, k \in DOMAIN bs : bs[j].isbn = bs[k].isbn => j = k

\* C14: a menu issue of a book that is 'issued' returns False, changes no book
\* and does not call save_books; a menu issue of an 'available' book sets that
\* book to 'issued', and in the same menu round save_books rewrites the file
\* with the whole catalog.
C14_IssueContract ==
  [][(lpc = "menu" /\ last'.op = "issue") =>
       LET k == SearchByIsbn(books, last'.isbn)
       IN IF k = 0 \/ books[k].status = Issued
          THEN /\ ~last'.ok
               /\ ~last'.saved
               /\ books' = books
               /\ catalog' = catalog
          ELSE /\ last'.ok
               /\ last'.saved
               /\ books' = [books EXCEPT ![k].status = Issued]
               /\ writable => catalog' = Dump(books')
               /\ lpc' = "menu"]_vars

C14_Witness ==
  /\ last.op = "issue"
  /\ ~last.ok
  /\ mutated
  /\ \E k \in DOMAIN books : books[k].isbn = last.isbn /\ books[k].status = Issued
  /\ \E k \in DOMAIN books : books[k].status = Available

C17_IsbnsStayUnique ==
  [][(lpc = "menu") =>
       /\ UniqueIsbns(books) => UniqueIsbns(books')
       /\ Len(books') >= Len(books)
       /\ \A k \in DOMAIN books :
            /\ books'[k].title = books[k].title
            /\ books'[k].author = books[k].author
            /\ books'[k].isbn = books[k].isbn]_vars

C17_Witness ==
  /\ last.op = "add"
  /\ last.ok
  /\ Len(before) = 1
  /\ Len(books) = 2
  /\ UniqueIsbns(books)
  /\ before[1].status = Issued

\* C18: add_book with a title, author or ISBN that is empty after stripping, or
\* with an ISBN the catalog already holds, returns None, leaves books as they
\* were and does not call save_books.
C18_AddBookRejects ==
  [][(lpc = "menu" /\ last'.op = "add"
      /\ (\/ Strip(last'.title) = <<>>
          \/ Strip(last'.author) = <<>>
          \/ Strip(last'.isbn) = <<>>
          \/ \E k \in DOMAIN books : books[k].isbn = Strip(last'.isbn))) =>
       /\ ~last'.ok
       /\ ~last'.saved
       /\ books' = books
       /\ catalog' = catalog]_vars

C18_Witness ==
  /\ last.op = "add"
  /\ ~last.ok
  /\ last.isbn = <<" ", "1">>
  /\ Strip(last.title) # <<>>
  /\ Strip(last.author) # <<>>
  /\ \E k \in DOMAIN books : books[k].isbn = <<"1">>
  /\ books = before

\* C19: a menu return of a book that is not 'issued', or of an ISBN the catalog
\* does not hold, returns False, changes no book and does not call save_books;
\* a menu return of an 'issued' book sets it to 'available' and rewrites the
\* file; a return right after a successful issue of the same ISBN leaves books
\* and file as they were before the issue.
C19_ReturnContract ==
  [][(lpc = "menu" /\ last'.op = "return") =>
       LET k == SearchByIsbn(books, last'.isbn)
       IN IF k = 0 \/ books[k].status # Issued
          THEN /\ ~last'.ok
               /\ ~last'.saved
               /\ books' = books
               /\ catalog' = catalog
          ELSE /\ last'.ok
               /\ last'.saved
               /\ books' = [books EXCEPT ![k].status = Available]
               /\ writable => catalog' = Dump(books')
               /\ (last.op = "issue" /\ last.ok /\ last.isbn = last'.isbn) =>
                    /\ books' = before
                    /\ writable => catalog' = Dump(before)]_vars

C19_Witness ==
  /\ last.op = "return"
  /\ last.ok
  /\ writable
  /\ catalog = Dump(books)
  /\ \E k \in DOMAIN books :
       /\ books[k].isbn = last.isbn
       /\ before[k].status = Issued
       /\ books[k].status = Available

\* A catalog file load_books cannot take books from.
BadCatalog(f) ==
  \/ f.kind \in {"absent", "unreadable", "badjson", "notlist"}
  \/ \E k \in DOMAIN f.items :
       ~(RequiredKeys \subseteq DOMAIN f.items[k]) \/ ~(DOMAIN f.items[k] \subseteq BookKeys)

\* C20: LibraryInventory() never raises; for a catalog file that is absent,
\* unreadable, not JSON, not a list, or a list with a record that has a missing
\* or an extra key, load_books logs and the inventory starts empty.
C20_ConstructNeverRaises ==
  (last.op = "load") =>
    /\ lpc # "raised"
    /\ BadCatalog(catalog) => books = <<>> /\ last.log # <<>>

----------------------------------------------------------------------------
\* Claims on the weather visualizer

\* C16: main returns 2 exactly for a path that does not exist and 3 exactly for
\* an existing path load_and_clean raises on (unreadable, or no date column);
\* it returns 0 only with cleaned_weather.csv and weather_report.md written;
\* the three values differ; for a missing path or a failed load no output file
\* is ever written.
C16_ExitCodes ==
  /\ MissingInput # LoadFailed /\ MissingInput # Success /\ LoadFailed # Success
  /\ (~winput.exists \/ winput.kind # "csv"
      \/ ("date" \notin winput.cols /\ ~winput.datelike)) => wfiles = {}
  /\ wpc = "exit" =>
       /\ ~winput.exists <=> wcode = <<2>>
       /\ (winput.exists /\ (winput.kind # "csv"
             \/ ("date" \notin winput.cols /\ ~winput.datelike))) <=> wcode = <<3>>
       /\ wcode \in {<<0>>, <<2>>, <<3>>}
       /\ wcode = <<0>> => {CleanedCsv, ReportFile} \subseteq wfiles
  /\ wpc # "exit" => wcode = <<>>

C16_Witness ==
  /\ wpc = "exit"
  /\ wcode = <<3>>
  /\ winput.cols = {"temperature", "rainfall", "humidity"}
  /\ wfiles = {}
  /\ wfailing = {}

====
